---- MODULE Spec2Model ----
(***************************************************************************)
(* Document Master engine (src/tools/document_master/engine.py):           *)
(* tiered ingestion into a vector store, a persisted document index and    *)
(* resumable batch ingestion with a progress checkpoint.                   *)
(***************************************************************************)
EXTENDS Integers, Sequences, FiniteSets, TLC

(* ------------------------------ bounds --------------------------------- *)
\* file names of the small world (names are ordered as the integers are)
MaxNames == 2
\* distinct byte contents a file can hold
MaxContent == 3
\* operations (calls and file-system changes) in one behaviour of Spec
MaxClock == 4
\* files of a directory handed to batch_ingest in SpecBatch
MaxBatchFiles == 3
\* batch_ingest calls in one behaviour
MaxRuns == 2
\* store and index-write faults in one behaviour of SpecBatch
MaxFaults == 1
\* files of the long directory of SpecLong
MaxLong == 52
\* files of the directory of SpecMany, where more files fail than the error list holds
MaxMany == 102
\* chunks in the store of SpecSearch
MaxChunks == 3
\* n_results of the searches of SpecSearch
MaxResults == 2
\* chunks the generation stream of SpecReport delivers
MaxTokens == 2

(* --------------------------- program constants ------------------------- *)
BATCH_SAVE_INTERVAL == 50
batch_size == 100
MaxErrorFiles == 100

Tiers == {"gold", "standard", "archive"}
\* the tiers the callers pass
TierInputs == {"gold", "archive"}

Names == 1..MaxNames
Dirs == {"a", "b"}
\* the directory the small specifications work in
HomeDir == "a"
Contents == 1..MaxContent

NoCheckpoint == [exists |-> FALSE]
NoBatch == [active |-> FALSE]
NoReturn == [op |-> "none"]
\* no generate_report_stream call was made
NoReport == [pc |-> "none"]

(* ----------------------------- helpers --------------------------------- *)
Put(f, k, v) == [x \in (DOMAIN f) \cup {k} |-> IF x = k THEN v ELSE f[x]]

Min(S) == CHOOSE x \in S : \A y \in S : x <= y

RECURSIVE SortedSeq(_)
SortedSeq(S) == IF S = {} THEN <<>> ELSE <<Min(S)>> \o SortedSeq(S \ {Min(S)})

\* Path(filepath).name
Name(path) == path[2]

(* ------------------------- parsing and hashing ------------------------- *)
\* SHA-256 of the bytes: equal bytes give equal digests, distinct bytes
\* distinct digests.
file_hash(b) == <<"sha256", b>>

\* parse_file on bytes b: raises (corrupt bytes), yields blank text, or
\* yields text.
ParseKind(b) == IF b % 4 = 0 THEN "raises" ELSE IF b % 4 = 3 THEN "blank" ELSE "text"

\* len(splitter.split_text(text)) for the text parsed from bytes b
NChunks(b) == IF ParseKind(b) # "text" THEN 0 ELSE (b \div 4) + (IF b % 4 = 1 THEN 2 ELSE 1)

\* len(text)
Chars(b) == IF ParseKind(b) # "text" THEN 0 ELSE 900 * NChunks(b)

\* chunks[i] of the text parsed from bytes b (i counts from 0)
ChunkText(b, i) == <<"text", b, i>>

(* ---------------------------- vector store ----------------------------- *)
\* the id f"{fname}__chunk_{i}": one id per (fname, i)
ChunkId(fname, i) == <<fname, i>>

\* collection.get(where={"source_file": fname})["ids"]
GetIds(st, fname) == {id \in DOMAIN st : st[id].source_file = fname}

\* the delete left out: the collection keeps every entry
Delete_Nothing(st, ids) == st

\* collection.delete(ids=...)
Delete(st, ids) == [id \in (DOMAIN st) \ ids |-> st[id]]

\* collection.add(ids, documents, metadatas) of the entries new (a function
\* from ids): an id the collection already holds keeps its stored entry.
Add(st, new) == [id \in (DOMAIN st) \cup (DOMAIN new) |-> IF id \in DOMAIN st THEN st[id] ELSE new[id]]

\* collection.count()
Count(st) == Cardinality(DOMAIN st)

(* ------------------------------- state --------------------------------- *)
VARIABLES
    fs,          \* the file system: path -> bytes, for the files that exist
    index,       \* self.index, the in-memory document index
    disk_index,  \* data/ingest/docmaster_index.json
    store,       \* the persisted Chroma collection: chunk id -> entry
    checkpoint,  \* data/ingest/batch_progress.json
    batch,       \* the locals of a running batch_ingest call
    ret,         \* what the last call returned or raised
    clock,       \* datetime.now(), advanced by every operation
    ghost,       \* history: calls made, faults injected, the last interruption
    report       \* the generator a generate_report_stream call returned

vars == <<fs, index, disk_index, store, checkpoint, batch, ret, clock, ghost, report>>

\* _load_index when the index file is missing
EmptyIndex == [documents |-> <<>>, last_updated |-> 0,
               stats |-> [t \in Tiers |-> 0]]

NoFile == [exists |-> FALSE]

\* a file opened with mode "w" whose write failed part-way: it exists and
\* holds the beginning of a JSON document, which json.load rejects
CutFile == [exists |-> TRUE, cut |-> TRUE]

\* json.load of the file yields a value
Readable(f) == f.exists /\ "cut" \notin DOMAIN f

\* _load_index raises: the index file exists and json.load rejects it
LoadRaises(dsk) == dsk.exists /\ ~Readable(dsk)

\* _load_index, when it returns
LoadIndex(dsk) == IF dsk.exists THEN dsk.content ELSE EmptyIndex

(* ------------------------------ ingest_file ---------------------------- *)
\* the chunk entries ingest_file builds for chunks lo..hi-1
NewEntries(fname, path, b, tier, now, lo, hi) ==
    [id \in {ChunkId(fname, i) : i \in lo..(hi - 1)} |->
        [document |-> ChunkText(b, id[2]),
         source_file |-> fname,
         source_path |-> path,
         chunk_index |-> id[2],
         total_chunks |-> NChunks(b),
         sha256 |-> file_hash(b),
         tier |-> tier,
         ingested_at |-> now]]

\* the add loop: batches of batch_size, the first nOk of them succeed
AddBatches(st, fname, path, b, tier, now, nOk) ==
    LET upto == IF nOk * batch_size < NChunks(b) THEN nOk * batch_size ELSE NChunks(b)
    IN  Add(st, NewEntries(fname, path, b, tier, now, 0, upto))

NumBatches(b) == (NChunks(b) + batch_size - 1) \div batch_size

\* self.index["stats"][tier] = self.index["stats"].get(tier, 0) + 1
BumpStats(stats, tier) ==
    Put(stats, tier, (IF tier \in DOMAIN stats THEN stats[tier] ELSE 0) + 1)

\* how a file written with open(path, "w") and json.dump ends up:
\*   "ok"     written whole
\*   "open"   open raises: the file is left as it was
\*   "write"  json.dump raises after open has truncated the file: it is cut
WriteModes == {"ok", "open", "write"}

\* the index stamped in memory and never written to its file
SaveIndex_MemoryOnly(idx, dsk, now, how) ==
    [index |-> [idx EXCEPT !.last_updated = now], disk |-> dsk]

\* _save_index: stamps last_updated in memory, then rewrites the file
SaveIndex(idx, dsk, now, how) ==
    LET stamped == [idx EXCEPT !.last_updated = now]
    IN  [index |-> stamped,
         disk |-> CASE how = "ok" -> [exists |-> TRUE, content |-> stamped]
                    [] how = "open" -> dsk
                    [] how = "write" -> CutFile]

\* faults of the environment during one ingest_file call:
\*   "none"  every call succeeds
\*   "del"   collection.get / collection.delete raises (swallowed)
\*   "add"   collection.add raises, in add batch number addOk (from 0)
\*   "save"  writing the index file raises after it was opened
\*   "open"  opening the index file for writing raises
Faults == {"none", "del", "add", "save", "open"}

\* how _save_index ends under the fault
IndexWrite(fault) ==
    IF fault = "save" THEN "write" ELSE IF fault = "open" THEN "open" ELSE "ok"

\* an error return that has emptied the collection on its way
Outcome_ErrorClears(status, reason, idx, dsk, st) ==
    [status |-> status, reason |-> reason, index |-> idx, disk |-> dsk,
     store |-> IF status = "error" THEN <<>> ELSE st]

Outcome(status, reason, idx, dsk, st) ==
    [status |-> status, reason |-> reason, index |-> idx, disk |-> dsk, store |-> st]

\* dict.get(key): None for a missing key
None == <<"None">>
DictGet(d, key) == IF key \in DOMAIN d THEN d[key] ELSE None

\* the check read under a wrong key: existing.get("hash")
AlreadyIngested_WrongKey(idx, fname, fhash, tier, force) ==
    /\ ~force
    /\ fname \in DOMAIN idx.documents
    /\ DictGet(idx.documents[fname], "hash") = fhash
    /\ DictGet(idx.documents[fname], "tier") = tier

\* the hash check: the file has a record with this hash and this tier
AlreadyIngested(idx, fname, fhash, tier, force) ==
    /\ ~force
    /\ fname \in DOMAIN idx.documents
    /\ DictGet(idx.documents[fname], "sha256") = fhash
    /\ DictGet(idx.documents[fname], "tier") = tier

\* ingest_file(filepath, tier, force) on the state (idx, dsk, st, filesys)
ingest_file(idx, dsk, st, filesys, path, tier, force, now, fault, addOk) ==
    LET fname == Name(path) IN
    IF path \notin DOMAIN filesys
    THEN Outcome("error", "Cannot read", idx, dsk, st)
    ELSE
    LET b == filesys[path]
        fhash == file_hash(b)
    IN
    IF AlreadyIngested(idx, fname, fhash, tier, force)
    THEN Outcome("skipped", "already ingested", idx, dsk, st)
    ELSE IF ParseKind(b) = "raises"
    THEN Outcome("error", "parse", idx, dsk, st)
    ELSE IF ParseKind(b) = "blank"
    THEN Outcome("error", "empty content", idx, dsk, st)
    ELSE IF NChunks(b) = 0
    THEN Outcome("error", "no chunks", idx, dsk, st)
    ELSE
    LET st1 == IF fault = "del" THEN st ELSE Delete(st, GetIds(st, fname))
    IN
    IF fault = "add"
    THEN Outcome("raised", "store", idx, dsk,
                 AddBatches(st1, fname, path, b, tier, now, addOk))
    ELSE
    LET st2 == AddBatches(st1, fname, path, b, tier, now, NumBatches(b))
        rec == [sha256 |-> fhash, path |-> path, chunks |-> NChunks(b),
                chars |-> Chars(b), tier |-> tier, ingested_at |-> now]
        idx1 == [idx EXCEPT !.documents = Put(idx.documents, fname, rec),
                            !.stats = BumpStats(idx.stats, tier)]
        saved == SaveIndex(idx1, dsk, now, IndexWrite(fault))
    IN
    IF fault \in {"save", "open"}
    THEN Outcome("raised", "index write", saved.index, saved.disk, st2)
    ELSE Outcome("ingested", "", saved.index, saved.disk, st2)

(* ------------------------------ batch_ingest --------------------------- *)
\* _collect_files(directory) of a directory without subdirectories: the
\* paths of its files, sorted by file name
CollectFiles(filesys, d) ==
    LET names == {p[2] : p \in {q \in DOMAIN filesys : q[1] = d}}
        sorted == SortedSeq(names)
    IN  [k \in 1..Len(sorted) |-> <<d, sorted[k]>>]

\* error_files[:100]
FirstN(s, n) == IF Len(s) <= n THEN s ELSE SubSeq(s, 1, n)

\* stats["ingested"] + stats["skipped"] + stats["errors"]
Processed(stats) == stats.ingested + stats.skipped + stats.errors

\* the checkpoint loaded whether or not the caller forces a restart
StartBatch_KeepsCompleted(all_files, d, tier, force, ckpt, now) ==
    LET completed == IF Readable(ckpt) THEN ckpt.completed ELSE {}
    IN  [active |-> TRUE, dir |-> d, all_files |-> all_files, i |-> 1,
         tier |-> tier, force |-> force,
         completed |-> completed,
         stats |-> [total |-> Len(all_files), ingested |-> 0, skipped |-> 0,
                    errors |-> 0, resumed_from |-> Cardinality(completed),
                    start_time |-> now],
         error_files |-> <<>>]

\* the locals of batch_ingest before the loop; a checkpoint that json.load
\* rejects is ignored (except Exception: pass)
StartBatch(all_files, d, tier, force, ckpt, now) ==
    LET completed == IF ckpt.exists /\ ~force /\ Readable(ckpt)
                     THEN ckpt.completed ELSE {}
    IN  [active |-> TRUE, dir |-> d, all_files |-> all_files, i |-> 1,
         tier |-> tier, force |-> force,
         completed |-> completed,
         stats |-> [total |-> Len(all_files), ingested |-> 0, skipped |-> 0,
                    errors |-> 0, resumed_from |-> Cardinality(completed),
                    start_time |-> now],
         error_files |-> <<>>]

\* the except branch forgets to count: only completed.add(fname)
Classify_DropRaised(b, fname, status, reason) ==
    [b EXCEPT
       !.stats.ingested = @ + (IF status = "ingested" THEN 1 ELSE 0),
       !.stats.skipped = @ + (IF status = "skipped" THEN 1 ELSE 0),
       !.stats.errors = @ + (IF status = "error" THEN 1 ELSE 0),
       !.error_files = IF status = "error"
                       THEN Append(@, [file |-> fname, reason |-> reason])
                       ELSE @,
       !.completed = @ \cup {fname}]

\* an "error" result falls into the "skipped" branch
Classify_ErrorAsSkipped(b, fname, status, reason) ==
    [b EXCEPT
       !.stats.ingested = @ + (IF status = "ingested" THEN 1 ELSE 0),
       !.stats.skipped = @ + (IF status \in {"skipped", "error"} THEN 1 ELSE 0),
       !.stats.errors = @ + (IF status = "raised" THEN 1 ELSE 0),
       !.error_files = IF status = "raised"
                       THEN Append(@, [file |-> fname, reason |-> reason])
                       ELSE @,
       !.completed = @ \cup {fname}]

\* the counters and the error list after ingest_file ended with status
Classify(b, fname, status, reason) ==
    [b EXCEPT
       !.stats.ingested = @ + (IF status = "ingested" THEN 1 ELSE 0),
       !.stats.skipped = @ + (IF status = "skipped" THEN 1 ELSE 0),
       !.stats.errors = @ + (IF status \in {"error", "raised"} THEN 1 ELSE 0),
       !.error_files = IF status \in {"error", "raised"}
                       THEN Append(@, [file |-> fname, reason |-> reason])
                       ELSE @,
       !.completed = @ \cup {fname}]

\* the checkpoint written inside the loop
LoopCheckpoint(b, now) ==
    [exists |-> TRUE, completed |-> b.completed, stats |-> b.stats,
     finished |-> FALSE, last_saved |-> now]

\* stats as returned: end_time and the error list added
FinalStats(b, now) ==
    [total |-> b.stats.total, ingested |-> b.stats.ingested,
     skipped |-> b.stats.skipped, errors |-> b.stats.errors,
     resumed_from |-> b.stats.resumed_from, start_time |-> b.stats.start_time,
     end_time |-> now, error_files |-> FirstN(b.error_files, MaxErrorFiles)]

\* the final checkpoint written like those of the loop, without "finished"
FinalCheckpoint_Unfinished(b, now) ==
    [exists |-> TRUE, completed |-> b.completed, stats |-> FinalStats(b, now),
     finished |-> FALSE, last_saved |-> 0]

\* the checkpoint written after the loop
FinalCheckpoint(b, now) ==
    [exists |-> TRUE, completed |-> b.completed, stats |-> FinalStats(b, now),
     finished |-> TRUE, last_saved |-> 0]

\* whether the loop passes over the file without calling ingest_file
PassedOver(b, fname) == fname \in b.completed /\ ~b.force

(* ------------------------------- actions ------------------------------- *)
\* history kept for the properties; no action reads it except to bound the
\* behaviours (runs, faults, kills)
NoGhost == [ncalls |-> 0,        \* ingest_file invocations so far
            faults |-> 0,        \* faults injected so far
            restarts |-> 0,      \* process restarts so far
            runs |-> 0,          \* batch_ingest calls so far
            attempted |-> <<>>,  \* this run: the names ingest_file was called for
            failed |-> {},       \* this run: the names whose ingestion failed
            fresh |-> FALSE,     \* this run began with no checkpoint, an empty index and store
            killed |-> FALSE,    \* a batch run was killed and none started since
            killedAt |-> 0,      \* files the killed run had handled
            killedRun |-> NoBatch, \* its locals when it was killed
            killedFresh |-> FALSE,
            resumed |-> FALSE,   \* this run restarts the killed run: same directory and tier, no force
            loaded |-> {}]       \* this run: the completed set loaded from the checkpoint

Init ==
    /\ fs = <<>>
    /\ index = EmptyIndex
    /\ disk_index = NoFile
    /\ store = <<>>
    /\ checkpoint = NoCheckpoint
    /\ batch = NoBatch
    /\ ret = NoReturn
    /\ clock = 0
    /\ ghost = NoGhost
    /\ report = NoReport

\* the environment writes (creates or overwrites) a file of the home directory
WriteFile ==
    /\ ~batch.active
    /\ clock < MaxClock
    /\ \E n \in Names, b \in Contents :
          /\ (<<HomeDir, n>> \in DOMAIN fs => fs[<<HomeDir, n>>] # b)
          /\ fs' = Put(fs, <<HomeDir, n>>, b)
    /\ clock' = clock + 1
    /\ UNCHANGED <<index, disk_index, store, checkpoint, batch, ret, ghost, report>>

\* a DocumentMaster exists: the last construction did not raise
EngineUp == ret.op # "__init__"

\* a call of ingest_file from the caller, its path drawn from pathSet, its
\* tier from tierSet and the fault of the environment from faultSet
IngestFileOn(pathSet, tierSet, faultSet) ==
    /\ EngineUp
    /\ ~batch.active
    /\ clock < MaxClock
    /\ \E path \in pathSet, tier \in tierSet, force \in BOOLEAN, fault \in faultSet :
       \E addOk \in 0..(IF fault = "add" /\ path \in DOMAIN fs /\ NumBatches(fs[path]) > 0
                        THEN NumBatches(fs[path]) - 1 ELSE 0) :
          LET o == ingest_file(index, disk_index, store, fs, path, tier, force,
                               clock + 1, fault, addOk)
          IN  /\ (fault # "none" => o.status \in {"raised", "ingested"})
              /\ (fault = "add" => o.status = "raised")
              /\ index' = o.index
              /\ disk_index' = o.disk
              /\ store' = o.store
              /\ ret' = [op |-> "ingest_file", file |-> Name(path), path |-> path,
                         tier |-> tier, force |-> force, fault |-> fault,
                         status |-> o.status, reason |-> o.reason]
              /\ ghost' = [ghost EXCEPT !.ncalls = @ + 1,
                                        !.faults = @ + (IF fault = "none" THEN 0 ELSE 1)]
    /\ clock' = clock + 1
    /\ UNCHANGED <<fs, checkpoint, batch, report>>

\* a call of ingest_file for a file that exists
IngestFileWith(tierSet, faultSet) == IngestFileOn(DOMAIN fs, tierSet, faultSet)

IngestFile == IngestFileWith(TierInputs, Faults)

\* the process ends (between two calls, or killed between two files of a
\* batch) and a new DocumentMaster is constructed: __init__ loads the index;
\* when _load_index raises, __init__ raises and no DocumentMaster exists (the
\* variable index then holds no index of any object: EmptyIndex stands in)
RestartWith ==
    /\ IF LoadRaises(disk_index)
       THEN /\ index' = EmptyIndex
            /\ ret' = [op |-> "__init__", status |-> "raised", reason |-> "index load"]
       ELSE /\ index' = LoadIndex(disk_index)
            /\ ret' = NoReturn
    /\ batch' = NoBatch
    /\ ghost' = IF batch.active
                THEN [ghost EXCEPT !.restarts = @ + 1, !.killed = TRUE,
                                   !.killedAt = batch.i - 1, !.killedRun = batch,
                                   !.killedFresh = ghost.fresh]
                ELSE [ghost EXCEPT !.restarts = @ + 1]
    /\ clock' = clock + 1
    /\ UNCHANGED <<fs, disk_index, store, checkpoint, report>>

Restart ==
    /\ clock < MaxClock
    /\ RestartWith

\* batch_ingest(directory, tier, force) up to the loop, all_files being the
\* list _collect_files returned
BatchStartOn(all_files, d, tier, force) ==
    /\ EngineUp
    /\ ~batch.active
    /\ ghost.runs < MaxRuns
    /\ LET resumes == /\ ghost.killed
                      /\ ghost.killedRun.dir = d
                      /\ ghost.killedRun.all_files = all_files
                      /\ ghost.killedRun.tier = tier
                      /\ ~ghost.killedRun.force
                      /\ ~force
                      /\ ghost.killedFresh
           g == [ghost EXCEPT !.runs = @ + 1, !.attempted = <<>>, !.failed = {},
                              !.fresh = /\ ~checkpoint.exists
                                        /\ index.documents = <<>>
                                        /\ store = <<>>,
                              !.killed = FALSE, !.resumed = resumes,
                              !.loaded = IF checkpoint.exists /\ ~force /\ Readable(checkpoint)
                                         THEN checkpoint.completed ELSE {}]
       IN  IF Len(all_files) = 0
           THEN /\ ret' = [op |-> "batch_ingest", status |-> "empty", total |-> 0]
                /\ batch' = batch
                /\ ghost' = [ghost EXCEPT !.runs = @ + 1, !.killed = FALSE]
           ELSE /\ batch' = StartBatch(all_files, d, tier, force, checkpoint, clock + 1)
                /\ ret' = NoReturn
                /\ ghost' = g
    /\ clock' = clock + 1
    /\ UNCHANGED <<fs, index, disk_index, store, checkpoint, report>>

\* batch_ingest(directory, tier, force) on a directory without subdirectories
BatchStartWith(d, tier, force) == BatchStartOn(CollectFiles(fs, d), d, tier, force)

\* the call ends with an exception
Raise(reason) ==
    /\ batch' = NoBatch
    /\ ret' = [op |-> "batch_ingest", status |-> "raised", reason |-> reason]

\* what the progress callback of batch_ingest does when the loop calls it:
\* "none" (no callback was passed), "returns" or "raises"
Callbacks == {"none", "returns", "raises"}

\* how the write of the checkpoint file ends under the write failure
CheckpointWrite(wfail) ==
    IF wfail = "checkpoint" THEN "write"
    ELSE IF wfail = "checkpoint open" THEN "open" ELSE "ok"

\* how _save_index after the checkpoint ends under the write failure
IndexWriteAfter(wfail) ==
    IF wfail = "index" THEN "write" ELSE IF wfail = "index open" THEN "open" ELSE "ok"

\* the checkpoint file after open(progress_path, "w") and json.dump of new
WriteCheckpoint(ckpt, new, how) ==
    CASE how = "ok" -> new
      [] how = "open" -> ckpt
      [] how = "write" -> CutFile

\* one iteration of the loop of batch_ingest; wfail names the write that
\* fails when a checkpoint is due (see WriteFailures); cb is the behaviour
\* of the callback, called outside the try block
BatchStepCb(fault, addOk, wfail, cb) ==
    /\ batch.active
    /\ batch.i <= Len(batch.all_files)
    /\ LET path == batch.all_files[batch.i]
           fname == Name(path)
           now == clock + 1
       IN  IF PassedOver(batch, fname)
           THEN /\ fault = "none" /\ wfail = "none" /\ cb # "raises"
                /\ batch' = [batch EXCEPT !.stats.skipped = @ + 1, !.i = @ + 1]
                /\ UNCHANGED <<index, disk_index, store, checkpoint, ret, ghost>>
           ELSE LET o == ingest_file(index, disk_index, store, fs, path, batch.tier,
                                     batch.force, now, fault, addOk)
                    b1 == [Classify(batch, fname, o.status, o.reason) EXCEPT !.i = @ + 1]
                    due == Processed(b1.stats) % BATCH_SAVE_INTERVAL = 0
                    saved == SaveIndex(o.index, o.disk, now, IndexWriteAfter(wfail))
                IN  /\ (fault # "none" => o.status \in {"raised", "ingested"})
                    /\ (fault = "add" => o.status = "raised")
                    /\ ((~due \/ cb = "raises") => wfail = "none")
                    /\ store' = o.store
                    /\ ghost' = [ghost EXCEPT
                                   !.ncalls = @ + 1,
                                   !.faults = @ + (IF fault = "none" THEN 0 ELSE 1)
                                                + (IF wfail = "none" THEN 0 ELSE 1)
                                                + (IF cb = "raises" THEN 1 ELSE 0),
                                   !.attempted = Append(@, fname),
                                   !.failed = IF o.status \in {"error", "raised"}
                                              THEN @ \cup {fname} ELSE @]
                    /\ IF cb = "raises"
                       THEN /\ index' = o.index
                            /\ disk_index' = o.disk
                            /\ UNCHANGED checkpoint
                            /\ Raise("callback")
                       ELSE IF ~due
                       THEN /\ index' = o.index
                            /\ disk_index' = o.disk
                            /\ batch' = b1
                            /\ UNCHANGED <<checkpoint, ret>>
                       ELSE IF CheckpointWrite(wfail) # "ok"
                       THEN /\ index' = o.index
                            /\ disk_index' = o.disk
                            /\ checkpoint' = WriteCheckpoint(checkpoint, LoopCheckpoint(b1, now),
                                                           CheckpointWrite(wfail))
                            /\ Raise("checkpoint write")
                       ELSE /\ checkpoint' = WriteCheckpoint(checkpoint, LoopCheckpoint(b1, now), "ok")
                            /\ index' = saved.index
                            /\ disk_index' = saved.disk
                            /\ IF IndexWriteAfter(wfail) # "ok"
                               THEN Raise("index write")
                               ELSE batch' = b1 /\ UNCHANGED ret
    /\ clock' = clock + 1
    /\ UNCHANGED <<fs, report>>

\* one iteration of the loop of a batch_ingest called without a callback
BatchStepWith(fault, addOk, wfail) == BatchStepCb(fault, addOk, wfail, "none")

\* batch_ingest after the loop: the final checkpoint, the index, the return
BatchFinishWith(wfail) ==
    /\ batch.active
    /\ batch.i > Len(batch.all_files)
    /\ LET now == clock + 1
           saved == SaveIndex(index, disk_index, now, IndexWriteAfter(wfail))
       IN  IF CheckpointWrite(wfail) # "ok"
           THEN /\ checkpoint' = WriteCheckpoint(checkpoint, FinalCheckpoint(batch, now),
                                                CheckpointWrite(wfail))
                /\ UNCHANGED <<index, disk_index>>
                /\ Raise("checkpoint write")
           ELSE /\ checkpoint' = WriteCheckpoint(checkpoint, FinalCheckpoint(batch, now), "ok")
                /\ index' = saved.index
                /\ disk_index' = saved.disk
                /\ IF IndexWriteAfter(wfail) # "ok"
                   THEN Raise("index write")
                   ELSE /\ batch' = NoBatch
                        /\ ret' = [op |-> "batch_ingest", status |-> "returned",
                                   stats |-> FinalStats(batch, now)]
    /\ ghost' = [ghost EXCEPT !.faults = @ + (IF wfail = "none" THEN 0 ELSE 1)]
    /\ clock' = clock + 1
    /\ UNCHANGED <<fs, store, report>>

Next == WriteFile \/ IngestFile \/ Restart

Spec == Init /\ [][Next]_vars

(* ------------- the batch on small directories, with faults ------------- *)
\* bytes that parse to two chunks, and bytes that parse_file raises on
TwoChunkBytes == CHOOSE b \in 1..4 : ParseKind(b) = "text" /\ NChunks(b) = 2
BadBytes == CHOOSE b \in 1..4 : ParseKind(b) = "raises"

\* the bytes of the files of the small batch directories
BatchContents == {TwoChunkBytes, BadBytes}

WriteFailures == {"none", "checkpoint", "checkpoint open", "index", "index open"}

\* the directory holds files 1..n, each with bytes of BatchContents
InitBatch ==
    /\ \E n \in 1..MaxBatchFiles :
          fs \in [{HomeDir} \X (1..n) -> BatchContents]
    /\ index = EmptyIndex
    /\ disk_index = NoFile
    /\ store = <<>>
    /\ checkpoint = NoCheckpoint
    /\ batch = NoBatch
    /\ ret = NoReturn
    /\ clock = 0
    /\ ghost = NoGhost
    /\ report = NoReport

\* the tier the batches run under: the default of batch_ingest
BatchTier == "archive"

BatchStart ==
    \E force \in BOOLEAN : BatchStartWith(HomeDir, BatchTier, force)

\* the faults injected while a batch handles a file: the store raising
BatchFaults == {"none", "add"}

BatchStep ==
    \E fault \in BatchFaults, wfail \in WriteFailures :
        /\ (fault # "none" \/ wfail # "none") => ghost.faults < MaxFaults
        /\ BatchStepWith(fault, 0, wfail)

BatchFinish ==
    \E wfail \in WriteFailures :
        /\ wfail # "none" => ghost.faults < MaxFaults
        /\ BatchFinishWith(wfail)

\* the process is killed between two files of a running batch
Kill ==
    /\ batch.active
    /\ ghost.restarts = 0
    /\ RestartWith

NextBatch == BatchStart \/ BatchStep \/ BatchFinish

SpecBatch == InitBatch /\ [][NextBatch]_vars


(* ------------------ the batch on a long directory ---------------------- *)
\* bytes that parse to one chunk
GoodBytes == CHOOSE b \in 1..4 : ParseKind(b) = "text" /\ NChunks(b) = 1

\* the long directory of n files; file number bad (if any) does not parse
LongDir(n, bad) ==
    [p \in {HomeDir} \X (1..n) |-> IF p[2] = bad THEN BadBytes ELSE GoodBytes]

LongSizes == {MaxLong - 1, MaxLong}
\* the file that does not parse: none, an early one, one after the first checkpoint
LongBad == {0, 2, BATCH_SAVE_INTERVAL + 1}
\* a directory that holds one file only, before the others arrive
SeedNames == {1, BATCH_SAVE_INTERVAL}

InitLong ==
    /\ \/ \E s \in SeedNames : fs = [p \in {<<HomeDir, s>>} |-> GoodBytes]
       \/ \E n \in LongSizes, bad \in LongBad : fs = LongDir(n, bad)
    /\ index = EmptyIndex
    /\ disk_index = NoFile
    /\ store = <<>>
    /\ checkpoint = NoCheckpoint
    /\ batch = NoBatch
    /\ ret = NoReturn
    /\ clock = 0
    /\ ghost = NoGhost
    /\ report = NoReport

\* the environment fills the directory that held one file
AddFiles ==
    /\ ~batch.active
    /\ Cardinality(DOMAIN fs) = 1
    /\ ghost.runs = 1
    /\ \E n \in LongSizes : fs' = LongDir(n, 0)
    /\ clock' = clock + 1
    /\ UNCHANGED <<index, disk_index, store, checkpoint, batch, ret, ghost, report>>

BatchStartLong ==
    /\ Cardinality(DOMAIN fs) = 1 => ghost.runs = 0
    /\ \E force \in BOOLEAN : BatchStartWith(HomeDir, BatchTier, force)

BatchStepLong == BatchStepWith("none", 0, "none")

BatchFinishLong == BatchFinishWith("none")

NextLong == AddFiles \/ BatchStartLong \/ BatchStepLong \/ BatchFinishLong \/ Kill

SpecLong == InitLong /\ [][NextLong]_vars

\* the long directory with no process kill: every call runs to its end,
\* since the loop of batch_ingest goes from one file to the next
InitRun ==
    /\ \E bad \in {0, 2} : fs = LongDir(MaxLong, bad)
    /\ index = EmptyIndex
    /\ disk_index = NoFile
    /\ store = <<>>
    /\ checkpoint = NoCheckpoint
    /\ batch = NoBatch
    /\ ret = NoReturn
    /\ clock = 0
    /\ ghost = NoGhost
    /\ report = NoReport

NextRun == BatchStartLong \/ BatchStepLong \/ BatchFinishLong

SpecRun == InitRun /\ [][NextRun]_vars

FairSpecRun == SpecRun /\ WF_vars(BatchStepLong) /\ WF_vars(BatchFinishLong)

(* ------------------------ ingest_file: properties ---------------------- *)
\* the step is a call of ingest_file (alone or from the batch loop)
IsCall == ghost'.ncalls = ghost.ncalls + 1

\* the chunk entries of the store whose source_file is fname
ChunksOf(st, fname) == [id \in GetIds(st, fname) |-> st[id]]

\* C1: ingest_file without force on a file whose hash and tier equal those of
\* its index record returns "skipped" and changes neither the vector store,
\* nor the in-memory index, nor the persisted index.
C1_Idempotent ==
    [][(/\ IsCall
        /\ ret'.op = "ingest_file"
        /\ ~ret'.force
        /\ ret'.path \in DOMAIN fs
        /\ ret'.file \in DOMAIN index.documents
        /\ index.documents[ret'.file].sha256 = file_hash(fs[ret'.path])
        /\ index.documents[ret'.file].tier = ret'.tier)
       => (/\ ret'.status = "skipped"
           /\ store' = store
           /\ index' = index
           /\ disk_index' = disk_index)]_vars

\* a second ingest of an unchanged file has returned "skipped" while the store
\* holds the file's chunks
C1_Witness ==
    /\ ret.op = "ingest_file"
    /\ ret.status = "skipped"
    /\ ~ret.force
    /\ GetIds(store, ret.file) # {}

\* C2: whenever ingest_file returns "ingested" for a filename already in the
\* index with another hash or tier, the store's chunks of that filename are
\* exactly the new chunk set.
C2_Replacement ==
    [][(/\ IsCall
        /\ ret'.op = "ingest_file"
        /\ ret'.status = "ingested"
        /\ ret'.file \in DOMAIN index.documents
        /\ \/ index.documents[ret'.file].sha256 # file_hash(fs[ret'.path])
           \/ index.documents[ret'.file].tier # ret'.tier)
       => ChunksOf(store', ret'.file)
            = NewEntries(ret'.file, ret'.path, fs[ret'.path], ret'.tier, clock', 0,
                         NChunks(fs[ret'.path]))]_vars

\* C3: after calls that returned or raised (no process kill), a filename has
\* an index record iff the store holds chunks of it, as many as the record says.
C3_IndexStoreAgree ==
    ghost.restarts = 0 =>
        \A n \in Names :
            /\ (n \in DOMAIN index.documents) <=> (GetIds(store, n) # {})
            /\ n \in DOMAIN index.documents =>
                   Cardinality(GetIds(store, n)) = index.documents[n].chunks

\* C4: after successful ingests, stats[t] is the number of records of tier t.
C4_TierCounters ==
    (ghost.restarts = 0 /\ ghost.faults = 0) =>
        \A t \in Tiers :
            index.stats[t] = Cardinality({n \in DOMAIN index.documents :
                                            index.documents[n].tier = t})

(* ------------------------ batch_ingest: properties --------------------- *)
\* the call returned its statistics
Returned == ret.op = "batch_ingest" /\ ret.status = "returned"

\* the step handles a file of the batch by calling ingest_file
IsBatchCall == batch.active /\ IsCall

\* the names in an error list
ErrorNames(error_files) == {error_files[k].file : k \in 1..Len(error_files)}

\* C5: a file whose ingestion fails adds one to errors and one entry to the
\* error list, and the loop goes on to the next file; the batch can always
\* take its next step, and a call that returns has processed every file,
\* also when all of them failed.
C5_FailureIsolation ==
    /\ [][(IsBatchCall /\ ghost'.failed # ghost.failed)
          => (/\ batch'.active
              /\ batch'.i = batch.i + 1
              /\ batch'.stats.errors = batch.stats.errors + 1
              /\ batch'.stats.ingested = batch.stats.ingested
              /\ batch'.stats.skipped = batch.stats.skipped
              /\ Len(batch'.error_files) = Len(batch.error_files) + 1
              /\ batch'.error_files[Len(batch'.error_files)].file
                   = Name(batch.all_files[batch.i])
              /\ SubSeq(batch'.error_files, 1, Len(batch.error_files)) = batch.error_files)]_vars
    /\ [](batch.active => ENABLED (BatchStep \/ BatchFinish))
    /\ [](Returned => Processed(ret.stats) = ret.stats.total)

\* a batch returned after its first file failed and a later file was ingested
C5_Witness ==
    /\ Returned
    /\ ret.stats.errors >= 1
    /\ ret.stats.ingested >= 1
    /\ ret.stats.error_files[1].file = 1

\* a batch returned with every one of its files failed
C5_WitnessAllFail ==
    /\ Returned
    /\ ret.stats.total >= 2
    /\ ret.stats.errors = ret.stats.total

\* the bytes of the files of all_files[lo..hi] that parse to text / do not
GoodIn(all_files, lo, hi) ==
    {k \in lo..hi : k <= Len(all_files) /\ ParseKind(fs[all_files[k]]) = "text"}
BadIn(all_files, lo, hi) ==
    {k \in lo..hi : k <= Len(all_files) /\ ParseKind(fs[all_files[k]]) # "text"}

\* the names of all_files[lo..hi], in order
NamesFrom(all_files, lo, hi) == [k \in 1..(hi - lo + 1) |-> Name(all_files[lo + k - 1])]

\* C6: a run restarted (same directory, no force) after a from-scratch run
\* was killed having processed N files passes over exactly those N files,
\* attempts the others, and reports the totals of an uninterrupted
\* from-scratch run.
C6_Resumable ==
    (Returned /\ ghost.resumed) =>
        LET all_files == ghost.killedRun.all_files
            total == Len(all_files)
            N == ghost.killedAt
        IN  /\ ghost.attempted = NamesFrom(all_files, N + 1, total)
            /\ ret.stats.ingested = Cardinality(GoodIn(all_files, 1, total))
            /\ ret.stats.errors = Cardinality(BadIn(all_files, 1, total))
            /\ ret.stats.skipped = 0

\* C7: a file whose ingestion failed in a batch run is not in the completed
\* set of the checkpoint the run persists.
C7_FailedNotCompleted ==
    (Readable(checkpoint) /\ checkpoint.finished) =>
        ErrorNames(checkpoint.stats.error_files) \cap checkpoint.completed = {}

\* the completed set on disk
PersistedCompleted == IF Readable(checkpoint) THEN checkpoint.completed ELSE {}

\* the names of the files the running batch has handled
Handled == {Name(batch.all_files[k]) : k \in 1..(batch.i - 1)}

\* C8: in a running batch, whenever the processed count is a multiple of
\* BATCH_SAVE_INTERVAL the checkpoint on disk holds the completed set and the
\* counters, and at most BATCH_SAVE_INTERVAL handled files are missing from
\* the persisted completed set.
C8_Cadence ==
    batch.active =>
        /\ (Processed(batch.stats) > 0 /\ Processed(batch.stats) % BATCH_SAVE_INTERVAL = 0)
              => (/\ Readable(checkpoint)
                  /\ checkpoint.completed = batch.completed
                  /\ checkpoint.stats = batch.stats)
        /\ Cardinality(Handled \ PersistedCompleted) <= BATCH_SAVE_INTERVAL

\* the step is the return of batch_ingest
IsReturn == batch.active /\ ~batch'.active /\ ret'.op = "batch_ingest" /\ ret'.status = "returned"

\* C9: a running batch whose writes succeed (and whose process is not
\* killed) ends by returning, with a checkpoint on disk marked finished whose
\* completed set holds every enumerated file and whose stats hold the
\* counters, the times and the error list; a checkpoint written before the
\* end is not marked finished.
C9_Completion ==
    /\ batch.active ~> (Returned /\ Readable(checkpoint) /\ checkpoint.finished)
    /\ [][IsReturn =>
            (/\ Readable(checkpoint')
             /\ checkpoint'.finished
             /\ {Name(batch.all_files[k]) : k \in 1..Len(batch.all_files)} \subseteq checkpoint'.completed
             /\ checkpoint'.stats.ingested = batch.stats.ingested
             /\ checkpoint'.stats.skipped = batch.stats.skipped
             /\ checkpoint'.stats.errors = batch.stats.errors
             /\ checkpoint'.stats.start_time = batch.stats.start_time
             /\ checkpoint'.stats.end_time = clock'
             /\ checkpoint'.stats.error_files = FirstN(batch.error_files, MaxErrorFiles)
             /\ checkpoint'.stats = ret'.stats)]_vars
    /\ [][(checkpoint' # checkpoint /\ ~IsReturn /\ Readable(checkpoint'))
            => ~checkpoint'.finished]_vars

\* a forced run over a long directory has overwritten the finished checkpoint
\* of the run before it with an unfinished one
C9_Witness ==
    /\ batch.active
    /\ ghost.runs = 2
    /\ Readable(checkpoint)
    /\ ~checkpoint.finished
    /\ Cardinality(checkpoint.completed) = BATCH_SAVE_INTERVAL

\* C10: a from-scratch batch over N files of which k fail returns total = N,
\* ingested = N - k, errors = k, skipped = 0, and lists every failing file;
\* without faults the failing files are those that do not parse.
C10_FreshTotals ==
    (Returned /\ ghost.fresh) =>
        LET all_files == CollectFiles(fs, HomeDir)
            N == Len(all_files)
            k == Cardinality(ghost.failed)
        IN  /\ ret.stats.total = N
            /\ ret.stats.ingested = N - k
            /\ ret.stats.errors = k
            /\ ret.stats.skipped = 0
            /\ k <= MaxErrorFiles => ErrorNames(ret.stats.error_files) = ghost.failed
            /\ ghost.faults = 0 =>
                   ghost.failed = {Name(all_files[j]) : j \in BadIn(all_files, 1, N)}

\* a from-scratch batch returned with a failing file between two ingested ones
C10_Witness ==
    /\ Returned
    /\ ghost.fresh
    /\ ret.stats.total = 3
    /\ ret.stats.errors = 1
    /\ ret.stats.ingested = 2
    /\ ret.stats.error_files[1].file = 2

(* ------------- the batch on a directory where many files fail ---------- *)
\* the directory of n files none of which parses, except file number good
ManyDir(n, good) ==
    [p \in {HomeDir} \X (1..n) |-> IF p[2] = good THEN GoodBytes ELSE BadBytes]

\* as many failures as the error list holds, and more
ManySizes == {MaxErrorFiles, MaxMany}
\* the file that parses: none, or the first one
ManyGood == {0, 1}

InitMany ==
    /\ \E n \in ManySizes, good \in ManyGood : fs = ManyDir(n, good)
    /\ index = EmptyIndex
    /\ disk_index = NoFile
    /\ store = <<>>
    /\ checkpoint = NoCheckpoint
    /\ batch = NoBatch
    /\ ret = NoReturn
    /\ clock = 0
    /\ ghost = NoGhost
    /\ report = NoReport

BatchStartMany == \E force \in BOOLEAN : BatchStartWith(HomeDir, BatchTier, force)

BatchStepMany == BatchStepWith("none", 0, "none")

BatchFinishMany == BatchFinishWith("none")

NextMany == BatchStartMany \/ BatchStepMany \/ BatchFinishMany

SpecMany == InitMany /\ [][NextMany]_vars

\* C11: when a batch returns after more than 100 files failed, the error list
\* of the returned stats and of the final checkpoint holds exactly the last
\* 100 failures, in processing order.
C11_MostRecentErrors ==
    [][(IsReturn /\ Len(batch.error_files) > MaxErrorFiles) =>
          LET n == Len(batch.error_files)
              last == SubSeq(batch.error_files, n - MaxErrorFiles + 1, n)
          IN  /\ Len(ret'.stats.error_files) = MaxErrorFiles
              /\ ret'.stats.error_files = last
              /\ checkpoint'.stats.error_files = last]_vars

(* --------------- the batch called with a progress callback ------------- *)
\* what a callback that was passed can do
GivenCallbacks == Callbacks \ {"none"}

\* one iteration of the loop of a batch_ingest called with a callback
BatchStepCallback ==
    \E fault \in BatchFaults, wfail \in WriteFailures, cb \in GivenCallbacks :
        /\ (fault # "none" \/ wfail # "none" \/ cb = "raises") => ghost.faults < MaxFaults
        /\ BatchStepCb(fault, 0, wfail, cb)

NextCallback == BatchStart \/ BatchStepCallback \/ BatchFinish

SpecCallback == InitBatch /\ [][NextCallback]_vars

\* the call of batch_ingest ended with an exception
Raised == ret.op = "batch_ingest" /\ ret.status = "raised"

\* C12: a batch_ingest that has entered its loop raises to its caller only
\* when the write of the checkpoint file fails: not when the store or the
\* index write fails, not when the progress callback raises.
C12_OnlyCheckpointAborts == Raised => ret.reason = "checkpoint write"

(* --------------------------------- search ------------------------------ *)
\* Scores are fixed-point numbers in hundredths: One is 1.0. The distances
\* drawn below are multiples of a tenth, for which every product here is exact.
One == 100

\* TIER_WEIGHTS, in hundredths
TIER_WEIGHTS == [gold |-> 200, standard |-> 100, archive |-> 70]

\* n_results * 3
OverFetch == 3

\* filter_file=None and tier=None
NoFilterFile == 0
NoTier == ""

Min2(a, b) == IF a <= b THEN a ELSE b

\* whether the where clause built from filter_file and tier selects entry e
Matches(e, filter_file, tier) ==
    IF filter_file # NoFilterFile /\ tier # NoTier
    THEN e.source_file = filter_file /\ e.tier = tier
    ELSE IF filter_file # NoFilterFile THEN e.source_file = filter_file
    ELSE IF tier # NoTier THEN e.tier = tier
    ELSE TRUE

\* the order of chunk ids (file name, then chunk number)
IdLess(a, b) == a[1] < b[1] \/ (a[1] = b[1] /\ a[2] < b[2])

\* the ids of S from the nearest to the farthest; chunks at the same distance
\* come in id order
RECURSIVE ByDistance(_, _)
ByDistance(S, dist) ==
    IF S = {} THEN <<>>
    ELSE LET first == CHOOSE x \in S :
                         \A y \in S \ {x} : dist[x] < dist[y] \/ (dist[x] = dist[y] /\ IdLess(x, y))
         IN  <<first>> \o ByDistance(S \ {first}, dist)

\* collection.query(query_texts=[query], n_results=n, where=...): the ids of
\* the n nearest matching chunks, nearest first; dist is the cosine distance
\* of each stored chunk to the query
Query(st, dist, n, filter_file, tier) ==
    FirstN(ByDistance({id \in DOMAIN st : Matches(st[id], filter_file, tier)}, dist), n)

\* the weight taken whatever gold_boost says
Weight_AlwaysBoost(doc_tier, gold_boost) ==
    IF doc_tier \in DOMAIN TIER_WEIGHTS THEN TIER_WEIGHTS[doc_tier] ELSE One

\* TIER_WEIGHTS.get(doc_tier, 1.0) if gold_boost else 1.0
Weight(doc_tier, gold_boost) ==
    IF gold_boost
    THEN (IF doc_tier \in DOMAIN TIER_WEIGHTS THEN TIER_WEIGHTS[doc_tier] ELSE One)
    ELSE One

\* the hit built from a stored entry and its distance
Hit(e, distance, gold_boost) ==
    LET similarity == One - distance
        doc_tier == e.tier
        weight == Weight(doc_tier, gold_boost)
    IN  [text |-> e.document,
         source_file |-> e.source_file,
         source_path |-> e.source_path,
         chunk_index |-> e.chunk_index,
         tier |-> doc_tier,
         score |-> (similarity * weight) \div One,
         raw_score |-> similarity]

\* s without its element number k
Without(s, k) == SubSeq(s, 1, k - 1) \o SubSeq(s, k + 1, Len(s))

\* the sort forgotten: the hits stay in the order of the store
SortByScore_None(hits) == hits

\* hits.sort(key=score, reverse=True): descending, equal scores keep their order
RECURSIVE SortByScore(_)
SortByScore(hits) ==
    IF hits = <<>> THEN <<>>
    ELSE LET best == CHOOSE k \in 1..Len(hits) :
                        /\ \A j \in 1..Len(hits) : hits[j].score <= hits[k].score
                        /\ \A j \in 1..(k - 1) : hits[j].score < hits[k].score
         IN  <<hits[best]>> \o SortByScore(Without(hits, best))

\* the empty-store test left out: the store is queried for zero results
IsEmpty_Never(st) == Count(st) < 0

\* self.collection.count() == 0
IsEmpty(st) == Count(st) = 0

\* search(query, n_results, filter_file, tier, gold_boost): the hits returned
\* and the queries issued to the store
search(st, dist, n_results, filter_file, tier, gold_boost) ==
    IF IsEmpty(st)
    THEN [hits |-> <<>>, queries |-> <<>>]
    ELSE LET fetch_n == Min2(IF gold_boost THEN n_results * OverFetch ELSE n_results,
                             Count(st))
             ids == Query(st, dist, fetch_n, filter_file, tier)
             hits == [k \in 1..Len(ids) |-> Hit(st[ids[k]], dist[ids[k]], gold_boost)]
         IN  [hits |-> FirstN(SortByScore(hits), n_results),
              queries |-> <<[n_results |-> fetch_n, filter_file |-> filter_file,
                             tier |-> tier]>>]

(* ----------------------- search: specifications ------------------------ *)
\* cosine distances of a chunk to the query, in hundredths: similarity 1,
\* one half, zero, minus one half (cosine distance lies in 0..2)
Distances == {0, 50, 100, 150}

\* the state after ingest_file of files 1..k of filesys, file j under tiers[j]
RECURSIVE IngestAll(_, _, _)
IngestAll(filesys, tiers, k) ==
    IF k = 0
    THEN [index |-> EmptyIndex, disk |-> NoFile, store |-> <<>>]
    ELSE LET s == IngestAll(filesys, tiers, k - 1)
             o == ingest_file(s.index, s.disk, s.store, filesys, <<HomeDir, k>>,
                              tiers[k], FALSE, k, "none", 0)
         IN  [index |-> o.index, disk |-> o.disk, store |-> o.store]

\* m one-chunk files were ingested, each under some tier of tierSet
InitSearchWith(m, tierSet) ==
    /\ fs = [p \in {HomeDir} \X (1..m) |-> GoodBytes]
    /\ \E tiers \in [1..m -> tierSet] :
          LET s == IngestAll(fs, tiers, m)
          IN  /\ index = s.index
              /\ disk_index = s.disk
              /\ store = s.store
    /\ checkpoint = NoCheckpoint
    /\ batch = NoBatch
    /\ ret = NoReturn
    /\ clock = m
    /\ ghost = NoGhost
    /\ report = NoReport

\* a call of search; the query is given by the distance of each stored chunk.
\* search changes nothing it reads, so a behaviour holds one search
SearchWith(dists, n_results, filter_file, tier, gold_boost) ==
    /\ ret = NoReturn
    /\ \E dist \in [DOMAIN store -> dists] :
          LET r == search(store, dist, n_results, filter_file, tier, gold_boost)
          IN  ret' = [op |-> "search", dist |-> dist, n_results |-> n_results,
                      filter_file |-> filter_file, tier |-> tier,
                      gold_boost |-> gold_boost,
                      hits |-> r.hits, queries |-> r.queries]
    /\ UNCHANGED <<fs, index, disk_index, store, checkpoint, batch, clock, ghost, report>>

InitSearch == \E m \in 0..MaxChunks : InitSearchWith(m, Tiers)

Search ==
    \E n_results \in 1..MaxResults, filter_file \in {NoFilterFile, MaxNames},
       tier \in {NoTier, "gold"}, gold_boost \in BOOLEAN :
        SearchWith(Distances, n_results, filter_file, tier, gold_boost)

NextSearch == Search

SpecSearch == InitSearch /\ [][NextSearch]_vars

\* a store that holds one chunk more than a search for one result fetches;
\* every chunk has a positive similarity to the query
InitWide == InitSearchWith(OverFetch + 1, TierInputs)

\* the distances of chunks of positive similarity
NearDistances == {d \in Distances : d < One}

SearchWide ==
    \E tier \in {NoTier, "archive"}, gold_boost \in BOOLEAN :
        SearchWith(NearDistances, 1, NoFilterFile, tier, gold_boost)

NextWide == SearchWide

SpecWide == InitWide /\ [][NextWide]_vars

(* -------------------------- search: properties ------------------------- *)
Searched == ret.op = "search"

\* the stored chunk a hit was built from
HitId(h) == ChunkId(h.source_file, h.chunk_index)

\* the stored chunks the filter of the last search selects
Matching == {id \in DOMAIN store : Matches(store[id], ret.filter_file, ret.tier)}

\* the final score of a stored chunk for the last search
FinalScore(id) == ((One - ret.dist[id]) * Weight(store[id].tier, ret.gold_boost)) \div One

\* C13: in the hits of a search with gold_boost, of a gold hit and an archive
\* hit with the same raw similarity the gold hit has the strictly greater
\* score and comes first, whatever the similarity.
C13_GoldOverArchive ==
    (Searched /\ ret.gold_boost) =>
        \A i, j \in 1..Len(ret.hits) :
            (/\ ret.hits[i].tier = "gold"
             /\ ret.hits[j].tier = "archive"
             /\ ret.hits[i].raw_score = ret.hits[j].raw_score)
            => (ret.hits[i].score > ret.hits[j].score /\ i < j)

\* C14: a search with gold_boost asks the store for min(3 * n_results, count)
\* candidates, and no matching chunk left out of the hits has a strictly
\* higher final score than a returned hit.
C14_NoStarvation ==
    (Searched /\ ret.gold_boost /\ store # <<>>) =>
        /\ Len(ret.queries) = 1
        /\ ret.queries[1].n_results = Min2(OverFetch * ret.n_results, Count(store))
        /\ \A id \in Matching \ {HitId(ret.hits[k]) : k \in 1..Len(ret.hits)} :
              \A k \in 1..Len(ret.hits) : FinalScore(id) <= ret.hits[k].score

\* C15: every hit carries raw_score = 1 - distance, the tier of its chunk,
\* and score = raw_score * TIER_WEIGHTS[tier] under gold_boost, score =
\* raw_score without it.
C15_ScoreFormula ==
    Searched =>
        \A k \in 1..Len(ret.hits) :
            LET h == ret.hits[k]
                id == HitId(h)
            IN  /\ id \in DOMAIN store
                /\ h.text = store[id].document
                /\ h.tier = store[id].tier
                /\ h.raw_score = One - ret.dist[id]
                /\ (ret.gold_boost /\ h.tier \in DOMAIN TIER_WEIGHTS)
                      => h.score * One = h.raw_score * TIER_WEIGHTS[h.tier]
                /\ ~ret.gold_boost => h.score = h.raw_score

\* a boosted search returned a gold hit with twice its raw score before an
\* archive hit with less than its raw score
C15_Witness ==
    /\ Searched
    /\ ret.gold_boost
    /\ Len(ret.hits) >= 2
    /\ ret.hits[1].tier = "gold"
    /\ ret.hits[1].score = 2 * ret.hits[1].raw_score
    /\ ret.hits[2].tier = "archive"
    /\ ret.hits[2].score < ret.hits[2].raw_score

\* C16: the hits are in non-increasing order of score, hits of equal score
\* are in the order the store returned them (nearest first, then id order),
\* and there are min(n_results, matching chunks) of them.
C16_Ordering ==
    Searched =>
        /\ \A i, j \in 1..Len(ret.hits) :
              i < j =>
                 /\ ret.hits[i].score >= ret.hits[j].score
                 /\ ret.hits[i].score = ret.hits[j].score =>
                       LET a == HitId(ret.hits[i])
                           b == HitId(ret.hits[j])
                       IN  \/ ret.dist[a] < ret.dist[b]
                           \/ (ret.dist[a] = ret.dist[b] /\ IdLess(a, b))
        /\ Len(ret.hits) = Min2(ret.n_results, Cardinality(Matching))

\* a boosted search put a farther gold chunk before a nearer archive chunk
\* and kept two hits of equal score in the order of the store
C16_Witness ==
    /\ Searched
    /\ ret.gold_boost
    /\ Len(ret.hits) = 2
    /\ Cardinality(Matching) > 2
    /\ \E id \in Matching : store[id].tier = "archive" /\ ret.dist[id] < ret.dist[HitId(ret.hits[2])]
    /\ ret.hits[1].score = ret.hits[2].score
    /\ ret.hits[1].tier # ret.hits[2].tier

\* C17: search on a store without chunks returns the empty list and sends
\* no query to the store, whatever n_results, the filter and gold_boost.
C17_EmptyStore ==
    (Searched /\ Count(store) = 0) => (ret.hits = <<>> /\ ret.queries = <<>>)

\* a filtered, boosted search on the empty store
C17_Witness ==
    /\ Searched
    /\ Count(store) = 0
    /\ ret.gold_boost
    /\ ret.tier # NoTier
    /\ ret.filter_file # NoFilterFile
    /\ ret.n_results = MaxResults

(* ------------------------ generate_report_stream ----------------------- *)
ReportTypes == {"brief", "nuke"}

\* the stages list of generate_report_stream
Stages(report_type) ==
    <<"Connecting to Document Master",
      "Loading member profile data",
      "Querying gold-standard policy database",
      "Searching document archive">>
    \o (IF report_type = "nuke"
        THEN <<"Cross-referencing compliance records",
               "Analyzing historical data",
               "Processing all related documents",
               "Building risk assessment matrix">>
        ELSE <<>>)
    \o <<"Generating report">>

\* search_queries, each named by its template
SearchQueries(report_type) ==
    <<"{member_name} {area}",
      "{member_id} transportation funding",
      "{member_id} policy compliance",
      "Illinois transportation federal funding">>
    \o (IF report_type = "nuke"
        THEN <<"{member_id} grants discretionary",
               "{member_id} road construction closures",
               "{area} infrastructure",
               "IIJA formula allocations Illinois">>
        ELSE <<>>)

\* self.search(query, n_results=5, gold_boost=True)
ReportHits == 5

\* every hit is kept, seen or not
AddChunks_NoDedupe(all_chunks, seen_texts, results) ==
    [all_chunks |-> all_chunks \o results,
     seen_texts |-> seen_texts \cup {results[k].text : k \in 1..Len(results)}]

\* the inner loop over the hits of one query: a hit whose text was not seen
\* is appended
RECURSIVE AddChunks(_, _, _)
AddChunks(all_chunks, seen_texts, results) ==
    IF results = <<>>
    THEN [all_chunks |-> all_chunks, seen_texts |-> seen_texts]
    ELSE LET r == Head(results)
         IN  IF r.text \notin seen_texts
             THEN AddChunks(Append(all_chunks, r), seen_texts \cup {r.text}, Tail(results))
             ELSE AddChunks(all_chunks, seen_texts, Tail(results))

\* sum(1 for c in all_chunks if c.get("tier") == "gold")
GoldCount(all_chunks) ==
    Cardinality({k \in 1..Len(all_chunks) : all_chunks[k].tier = "gold"})

\* the events the generator yields; progress is the fraction
\* numerator / denominator (i / len(stages) * 100, or 90)
StageEvent(stage, num, den) == [kind |-> "stage", stage |-> stage, progress |-> <<num, den>>]
TokenEvent(token) == [kind |-> "token", token |-> token]
DoneEvent(full_text, all_chunks) ==
    [kind |-> "done", full_text |-> full_text, sources |-> Len(all_chunks),
     gold_sources |-> GoldCount(all_chunks)]
ErrorEvent(error) == [kind |-> "error", error |-> error]

\* the generator yields event ev
Yield(ev) == [report EXCEPT !.events = Append(@, ev)]

\* generate_report_stream(member_data, report_type): the generator is
\* created; its code runs when the consumer asks for events
ReportStart ==
    /\ EngineUp
    /\ report.pc = "none"
    /\ \E report_type \in ReportTypes :
          report' = [pc |-> "stages", report_type |-> report_type, i |-> 0, q |-> 1,
                     all_chunks |-> <<>>, seen_texts |-> {}, full_text |-> <<>>,
                     chunks |-> 0, events |-> <<>>]
    /\ UNCHANGED <<fs, index, disk_index, store, checkpoint, batch, ret, clock, ghost>>

\* the loop over stages[:-1]: one stage event
ReportStage ==
    /\ report.pc = "stages"
    /\ LET stages == Stages(report.report_type)
           i == report.i
       IN  report' = [Yield(StageEvent(stages[i + 1], i * 100, Len(stages))) EXCEPT
                        !.i = i + 1,
                        !.pc = IF i + 1 = Len(stages) - 1 THEN "retrieve" ELSE "stages"]
    /\ UNCHANGED <<fs, index, disk_index, store, checkpoint, batch, ret, clock, ghost>>

\* the distances a retrieval query of a report finds
ReportDistances == {0, 100}

\* the loop over search_queries: one search; when the store raises, the
\* exception leaves the generator
ReportQuery ==
    /\ report.pc = "retrieve"
    /\ report.q <= Len(SearchQueries(report.report_type))
    /\ \/ \E dist \in [DOMAIN store -> ReportDistances] :
             LET results == search(store, dist, ReportHits, NoFilterFile, NoTier, TRUE).hits
                 a == AddChunks(report.all_chunks, report.seen_texts, results)
             IN  report' = [report EXCEPT !.q = @ + 1,
                                          !.all_chunks = a.all_chunks,
                                          !.seen_texts = a.seen_texts]
       \/ report' = [report EXCEPT !.pc = "raised"]
    /\ UNCHANGED <<fs, index, disk_index, store, checkpoint, batch, ret, clock, ghost>>

\* after the queries: the prompt is built and the last stage event yielded
ReportGenerating ==
    /\ report.pc = "retrieve"
    /\ report.q > Len(SearchQueries(report.report_type))
    /\ report' = [Yield(StageEvent("Generating report", 90, 1)) EXCEPT !.pc = "health"]
    /\ UNCHANGED <<fs, index, disk_index, store, checkpoint, batch, ret, clock, ghost>>

\* _check_ollama() and ollama_client.chat(...): the backend is not
\* available, the chat call raises, or it returns a stream
ReportHealth ==
    /\ report.pc = "health"
    /\ \E ollama \in {"down", "chat raises", "up"} :
          report' = IF ollama = "down"
                    THEN [Yield(ErrorEvent("Ollama not available")) EXCEPT !.pc = "terminal"]
                    ELSE IF ollama = "chat raises"
                    THEN [Yield(ErrorEvent("Generation failed")) EXCEPT !.pc = "terminal"]
                    ELSE [report EXCEPT !.pc = "stream"]
    /\ UNCHANGED <<fs, index, disk_index, store, checkpoint, batch, ret, clock, ghost>>

\* the loop over the stream: the next chunk carries a token, carries empty
\* content, the stream raises, or the stream ends
ReportChunk ==
    /\ report.pc = "stream"
    /\ \E c \in {"token", "empty", "raises", "end"} :
          /\ c \in {"token", "empty"} => report.chunks < MaxTokens
          /\ report' =
               IF c = "token"
               THEN [Yield(TokenEvent("t")) EXCEPT !.full_text = Append(@, "t"),
                                                   !.chunks = @ + 1]
               ELSE IF c = "empty"
               THEN [report EXCEPT !.chunks = @ + 1]
               ELSE IF c = "raises"
               THEN [Yield(ErrorEvent("Generation failed")) EXCEPT !.pc = "terminal"]
               ELSE [Yield(DoneEvent(report.full_text, report.all_chunks)) EXCEPT
                       !.pc = "terminal"]
    /\ UNCHANGED <<fs, index, disk_index, store, checkpoint, batch, ret, clock, ghost>>

\* the consumer asks for an event after the done or error event: the
\* generator returns
ReportClose ==
    /\ report.pc = "terminal"
    /\ report' = [report EXCEPT !.pc = "closed"]
    /\ UNCHANGED <<fs, index, disk_index, store, checkpoint, batch, ret, clock, ghost>>

\* the store of the report specification: files 1 and 2 hold the same two
\* chunks, files 3 and 4 the same chunk; one copy of each is gold
ReportFiles ==
    [p \in {HomeDir} \X (1..4) |-> IF p[2] <= 2 THEN TwoChunkBytes ELSE GoodBytes]
ReportFileTiers == <<"gold", "archive", "archive", "gold">>

InitReport ==
    /\ \E m \in {0, Len(ReportFileTiers)} :
          /\ fs = [p \in {HomeDir} \X (1..m) |-> ReportFiles[p]]
          /\ LET s == IngestAll(fs, ReportFileTiers, m)
             IN  /\ index = s.index
                 /\ disk_index = s.disk
                 /\ store = s.store
          /\ clock = m
    /\ checkpoint = NoCheckpoint
    /\ batch = NoBatch
    /\ ret = NoReturn
    /\ ghost = NoGhost
    /\ report = NoReport

NextReport ==
    \/ ReportStart
    \/ ReportStage
    \/ ReportQuery
    \/ ReportGenerating
    \/ ReportHealth
    \/ ReportChunk
    \/ ReportClose

SpecReport == InitReport /\ [][NextReport]_vars

(* ------------------ generate_report_stream: properties ----------------- *)
\* the events yielded so far
Events == IF report.pc = "none" THEN <<>> ELSE report.events

IsTerminal(ev) == ev.kind \in {"done", "error"}

\* the event sequence is over: the generator returned or raised
StreamOver == report.pc \in {"closed", "raised"}

\* C18: the events of a report stream are one or more stage events, then
\* token events, then exactly one done or error event and nothing after it,
\* with no stage event after a token event; a stream that is over has its
\* terminal event, whatever retrieval and generation do.
C18_StreamShape ==
    LET n == Len(Events)
    IN  /\ n >= 1 => Events[1].kind = "stage"
        /\ \A i, j \in 1..n :
              i < j => /\ ~IsTerminal(Events[i])
                       /\ Events[i].kind = "token" => Events[j].kind # "stage"
        /\ StreamOver => (n >= 2 /\ IsTerminal(Events[n]))

\* C19: a stream that ends with an error event holds no token event.
C19_NoPartialReport ==
    LET n == Len(Events)
    IN  (n >= 1 /\ Events[n].kind = "error") =>
            \A k \in 1..n : Events[k].kind # "token"

\* C20: the chunks assembled for a report have pairwise distinct texts; the
\* done event comes after 4 queries (brief) or 8 (nuke) and reports sources =
\* the number of assembled chunks and gold_sources = the number of gold ones,
\* so gold_sources <= sources <= 5 * queries.
C20_DedupAndCounts ==
    report.pc # "none" =>
        LET chunks == report.all_chunks
            n == Len(Events)
            nq == IF report.report_type = "brief" THEN 4 ELSE 8
        IN  /\ \A i, j \in 1..Len(chunks) : i # j => chunks[i].text # chunks[j].text
            /\ Len(SearchQueries(report.report_type)) = nq
            /\ Len(chunks) <= 5 * (report.q - 1)
            /\ (n >= 1 /\ Events[n].kind = "done") =>
                  /\ report.q - 1 = nq
                  /\ Events[n].sources = Len(chunks)
                  /\ Events[n].gold_sources =
                        Cardinality({k \in 1..Len(chunks) : chunks[k].tier = "gold"})
                  /\ Events[n].gold_sources <= Events[n].sources
                  /\ Events[n].sources <= 5 * nq

\* a comprehensive report is done whose queries returned chunks of equal
\* text: three chunks assembled from a store of six, one of them gold
C20_Witness ==
    /\ report.pc = "terminal"
    /\ report.report_type = "nuke"
    /\ Events[Len(Events)].kind = "done"
    /\ Count(store) = 6
    /\ Events[Len(Events)].sources = 3
    /\ Events[Len(Events)].gold_sources = 1

(* ------------------- ingest_file under any tier string ----------------- *)
\* tier is a free string: the known tiers and one that TIER_WEIGHTS lacks
AnyTiers == Tiers \cup {"bronze"}

IngestAnyTier == IngestFileWith(AnyTiers, {"none"})

NextTiers == WriteFile \/ IngestAnyTier

SpecTiers == Init /\ [][NextTiers]_vars

\* C21: ingest_file called with a tier outside gold, standard, archive
\* reports an error and leaves the store, the index records and the tier
\* counters as they were.
C21_UnknownTierRejected ==
    [][(IsCall /\ ret'.tier \notin Tiers) =>
          (/\ ret'.status = "error"
           /\ store' = store
           /\ index'.documents = index.documents
           /\ index'.stats = index.stats)]_vars

(* ------------------------ a tree of directories ------------------------ *)
\* the subdirectories of the home directory; a name is a number, as file
\* names are, and names compare as numbers do
SubDirs == {"a/1", "a/3"}
\* a subdirectory whose name starts with a dot
HiddenDir == "a/.0"
TreeDirs == {HomeDir, HiddenDir} \cup SubDirs

\* d.startswith(".")
Hidden(d) == d = HiddenDir

\* the components of a directory below the home directory
DirKey(d) ==
    CASE d = HomeDir -> <<>>
      [] d = "a/1" -> <<1>>
      [] d = "a/3" -> <<3>>
      [] d = HiddenDir -> <<0>>

\* the components of a full path below the home directory
PathKey(path) == DirKey(path[1]) \o <<path[2]>>

\* lexicographic order of component sequences
LexLess(s, t) ==
    \E k \in 1..(Len(s) + 1) :
        /\ k <= Len(t)
        /\ \A j \in 1..(k - 1) : s[j] = t[j]
        /\ (k = Len(s) + 1 \/ s[k] < t[k])

\* the walk below the root: for each subdirectory in the order os.walk got
\* from the filesystem, hidden ones pruned, its files sorted by name
RECURSIVE WalkDirs(_, _)
WalkDirs(filesys, order) ==
    IF order = <<>> THEN <<>>
    ELSE (IF Hidden(Head(order)) THEN <<>> ELSE CollectFiles(filesys, Head(order)))
         \o WalkDirs(filesys, Tail(order))

\* _collect_files(root, recursive=True): the files of the root sorted by
\* name, then the subdirectories in the order the filesystem lists them
CollectTree(filesys, root, order) == CollectFiles(filesys, root) \o WalkDirs(filesys, order)

\* the orders in which the filesystem can list the subdirectories
DirOrders ==
    {o \in [1..(Cardinality(SubDirs) + 1) -> SubDirs \cup {HiddenDir}] :
        \A i, j \in DOMAIN o : o[i] = o[j] => i = j}

\* the file names a directory of the tree can hold
DirContents == {{}, {MaxNames}, Names}

InitTree ==
    /\ \E holds \in [TreeDirs -> DirContents] :
          fs = [p \in {q \in TreeDirs \X Names : q[2] \in holds[q[1]]} |-> GoodBytes]
    /\ index = EmptyIndex
    /\ disk_index = NoFile
    /\ store = <<>>
    /\ checkpoint = NoCheckpoint
    /\ batch = NoBatch
    /\ ret = NoReturn
    /\ clock = 0
    /\ ghost = NoGhost
    /\ report = NoReport

\* a call of _collect_files on the home directory
Collect ==
    /\ ~batch.active
    /\ ghost.runs = 0
    /\ ret = NoReturn
    /\ \E order \in DirOrders :
          ret' = [op |-> "_collect_files", order |-> order,
                  files |-> CollectTree(fs, HomeDir, order)]
    /\ UNCHANGED <<fs, index, disk_index, store, checkpoint, batch, clock, ghost, report>>

\* batch_ingest on the home directory of the tree
BatchStartTree ==
    \E order \in DirOrders, force \in BOOLEAN :
        BatchStartOn(CollectTree(fs, HomeDir, order), HomeDir, BatchTier, force)

NextTree == Collect \/ BatchStartTree \/ BatchStepMany \/ BatchFinishMany

SpecTree == InitTree /\ [][NextTree]_vars

\* C22: the list _collect_files builds holds the files outside hidden
\* directories in lexicographic order of their full paths: one sequence per
\* tree, whatever order the filesystem lists the subdirectories in.
C22_LexicographicOrder ==
    ret.op = "_collect_files" =>
        LET visible == {p \in DOMAIN fs : ~Hidden(p[1])}
            n == Len(ret.files)
        IN  /\ n = Cardinality(visible)
            /\ {ret.files[k] : k \in 1..n} = visible
            /\ \A i, j \in 1..n :
                  i < j => LexLess(PathKey(ret.files[i]), PathKey(ret.files[j]))

\* C25: in a batch run without force, the loop calls ingest_file for a file
\* exactly when its name is not in the completed set loaded from the
\* checkpoint, so the names attempted are those of the enumerated files
\* outside the loaded set, in enumeration order.
C25_RemainingAttempted ==
    [][(batch.active /\ ~batch.force /\ batch.i <= Len(batch.all_files)) =>
          LET fname == Name(batch.all_files[batch.i])
          IN  /\ IsCall <=> fname \notin ghost.loaded
              /\ IsCall => ghost'.attempted = Append(ghost.attempted, fname)
              /\ ~IsCall => ghost'.attempted = ghost.attempted]_vars

(* --------------------- chunks and their index record ------------------- *)
\* C23: once an ingest call has returned or raised, every chunk in the
\* vector store has an index record for its source_file, and the chunk's
\* sha256 and tier equal the record's sha256 and tier.
C23_ChunkMatchesRecord ==
    (ghost.ncalls >= 1 /\ EngineUp) =>
        \A id \in DOMAIN store :
            /\ store[id].source_file \in DOMAIN index.documents
            /\ store[id].sha256 = index.documents[store[id].source_file].sha256
            /\ store[id].tier = index.documents[store[id].source_file].tier

(* -------------------------- filename collision ------------------------- *)
\* the bare filename two directories share
SharedName == Min(Names)

\* two files of one name in two directories, of any bytes
InitCollide ==
    /\ fs \in [Dirs \X {SharedName} -> Contents]
    /\ index = EmptyIndex
    /\ disk_index = NoFile
    /\ store = <<>>
    /\ checkpoint = NoCheckpoint
    /\ batch = NoBatch
    /\ ret = NoReturn
    /\ clock = 0
    /\ ghost = NoGhost
    /\ report = NoReport

\* a call of ingest_file during which nothing of the environment fails
IngestNoFault == IngestFileWith(TierInputs, {"none"})

NextCollide == IngestNoFault

SpecCollide == InitCollide /\ [][NextCollide]_vars

\* C24: an ingest_file call for a file that parses, made when the record of
\* its bare filename describes a file of another path and other content,
\* returns "ingested" and leaves the one record of that filename describing
\* the later file (its path and hash), and the chunks stored for the filename
\* are exactly the later file's chunks under the ids <filename>__chunk_i.
C24_Collision ==
    [][(/\ IsCall
        /\ ret'.file \in DOMAIN index.documents
        /\ index.documents[ret'.file].path # ret'.path
        /\ index.documents[ret'.file].sha256 # file_hash(fs[ret'.path])
        /\ ParseKind(fs[ret'.path]) = "text")
       => /\ ret'.status = "ingested"
          /\ index'.documents[ret'.file].path = ret'.path
          /\ index'.documents[ret'.file].sha256 = file_hash(fs[ret'.path])
          /\ ChunksOf(store', ret'.file)
               = NewEntries(ret'.file, ret'.path, fs[ret'.path], ret'.tier, clock',
                            0, NChunks(fs[ret'.path]))]_vars

\* C24 witness: two calls were made, both ingested under one tier, the later
\* one without force for the one-chunk file of the other directory after the
\* two-chunk file of the home directory: one record, of the later file, and
\* one chunk, the later file's.
C24_Witness ==
    /\ ghost.ncalls = 2
    /\ ret.op = "ingest_file" /\ ret.status = "ingested" /\ ~ret.force
    /\ ret.path # <<HomeDir, SharedName>>
    /\ index.stats[ret.tier] = 2
    /\ NChunks(fs[<<HomeDir, SharedName>>]) = 2
    /\ NChunks(fs[ret.path]) = 1
    /\ index.documents[SharedName].path = ret.path
    /\ Cardinality(DOMAIN store) = 1
    /\ \A id \in DOMAIN store : store[id].source_path = ret.path

(* ------------------- recovery after a mid-ingest failure --------------- *)
\* the last call was an ingest_file call cut short by collection.add raising
\* after the pre-delete had emptied the store of the file's recorded chunks
CutShort ==
    /\ ret.op = "ingest_file"
    /\ ret.status = "raised"
    /\ ret.fault = "add"
    /\ ret.file \in DOMAIN index.documents
    /\ GetIds(store, ret.file) = {}

\* C26: the next ingest_file call for a file whose ingestion was cut short
\* after it had changed the vector store, made without force and with no
\* fault, under any tier, is not skipped by the hash check; if the file still
\* parses the call ingests it, and then the record and the stored chunks of
\* the file agree.
C26_Recovery ==
    [][(/\ CutShort
        /\ IsCall
        /\ ret'.path = ret.path
        /\ ~ret'.force
        /\ ret'.fault = "none")
       => /\ ret'.status # "skipped"
          /\ (ParseKind(fs[ret'.path]) = "text" =>
                /\ ret'.status = "ingested"
                /\ Cardinality(GetIds(store', ret'.file)) = index'.documents[ret'.file].chunks
                /\ \A id \in GetIds(store', ret'.file) :
                      store'[id].sha256 = index'.documents[ret'.file].sha256)]_vars

(* ---------------------------- forced restart --------------------------- *)
\* the other directory holds MaxBatchFiles files that parse, the home
\* directory up to as many files of any bytes
InitForce ==
    /\ \E n \in 1..MaxBatchFiles :
       \E home \in [{HomeDir} \X (1..n) -> BatchContents] :
          fs = [p \in (DOMAIN home) \cup ((Dirs \ {HomeDir}) \X (1..MaxBatchFiles)) |->
                    IF p \in DOMAIN home THEN home[p] ELSE GoodBytes]
    /\ index = EmptyIndex
    /\ disk_index = NoFile
    /\ store = <<>>
    /\ checkpoint = NoCheckpoint
    /\ batch = NoBatch
    /\ ret = NoReturn
    /\ clock = 0
    /\ ghost = NoGhost
    /\ report = NoReport

\* batch_ingest on either directory, with or without force
BatchStartAny ==
    \E d \in Dirs, force \in BOOLEAN : BatchStartWith(d, BatchTier, force)

NextForce == BatchStartAny \/ BatchStepMany \/ BatchFinishMany

SpecForce == InitForce /\ [][NextForce]_vars

\* C27: a batch_ingest run with force=True loads nothing from an existing
\* checkpoint (resumed_from = 0), returns skipped = 0, has called ingest_file
\* once for every enumerated file in order, has rewritten the record of
\* every file that did not fail, even of unchanged hash and tier, and ends
\* with a checkpoint whose completed set is the set of filenames enumerated
\* in this run.
C27_ForcedRestart ==
    [][(IsReturn /\ batch.force) =>
          LET names == [k \in 1..Len(batch.all_files) |-> Name(batch.all_files[k])]
          IN  /\ ghost.loaded = {}
              /\ ret'.stats.resumed_from = 0
              /\ ret'.stats.skipped = 0
              /\ ret'.stats.ingested + ret'.stats.errors = ret'.stats.total
              /\ ghost.attempted = names
              /\ \A k \in 1..Len(names) :
                    names[k] \notin ghost.failed =>
                        /\ index'.documents[names[k]].path = batch.all_files[k]
                        /\ index'.documents[names[k]].ingested_at > batch.stats.start_time
              /\ checkpoint'.completed = {names[k] : k \in 1..Len(names)}]_vars

\* C27 witness: the second run returned with every file ingested and none
\* skipped, over the home directory holding fewer files than the other
\* directory, after a first run that ingested the other directory: the
\* checkpoint lists the names of the home directory only, and the records of
\* those names describe the files of the home directory.
C27_Witness ==
    /\ Returned
    /\ ghost.runs = 2
    /\ ret.stats.skipped = 0
    /\ ret.stats.ingested = ret.stats.total
    /\ ret.stats.total < MaxBatchFiles
    /\ DOMAIN index.documents = 1..MaxBatchFiles
    /\ checkpoint.completed = 1..ret.stats.total
    /\ \A n \in checkpoint.completed : index.documents[n].path = <<HomeDir, n>>

(* ----------------------------- error results --------------------------- *)
\* the bytes a file can hold: those of Contents and bytes that do not parse
ErrContents == Contents \cup {BadBytes}

\* the environment writes a file of the home directory, of any bytes
WriteAny ==
    /\ clock < MaxClock
    /\ \E n \in Names, b \in ErrContents :
          /\ (<<HomeDir, n>> \in DOMAIN fs => fs[<<HomeDir, n>>] # b)
          /\ fs' = Put(fs, <<HomeDir, n>>, b)
    /\ clock' = clock + 1
    /\ UNCHANGED <<index, disk_index, store, checkpoint, batch, ret, ghost, report>>

\* the environment removes a file
RemoveFile ==
    /\ clock < MaxClock
    /\ \E path \in DOMAIN fs :
          fs' = [p \in (DOMAIN fs) \ {path} |-> fs[p]]
    /\ clock' = clock + 1
    /\ UNCHANGED <<index, disk_index, store, checkpoint, batch, ret, ghost, report>>

\* a call of ingest_file for a path of the home directory, whether or not a
\* file exists there
IngestAnyPath == IngestFileOn({HomeDir} \X Names, TierInputs, {"none"})

NextErrors == WriteAny \/ RemoveFile \/ IngestAnyPath

SpecErrors == Init /\ [][NextErrors]_vars

\* C28: an ingest_file call that returns status "error" leaves the vector
\* store, the in-memory index (documents, tier counters, last_updated) and
\* the persisted index exactly as they were before the call.
C28_ErrorFrame ==
    [][(IsCall /\ ret'.status = "error") =>
          (/\ ret'.reason \in {"Cannot read", "parse", "empty content", "no chunks"}
           /\ store' = store
           /\ index' = index
           /\ disk_index' = disk_index)]_vars

\* C28 witness: a call returned "error" because the file could not be read,
\* for a filename that has a record and chunks from an earlier ingestion.
C28_Witness ==
    /\ ret.op = "ingest_file"
    /\ ret.status = "error"
    /\ ret.reason = "Cannot read"
    /\ ret.file \in DOMAIN index.documents
    /\ Cardinality(GetIds(store, ret.file)) = index.documents[ret.file].chunks
    /\ Readable(disk_index)
    /\ ret.file \in DOMAIN disk_index.content.documents

(* -------------------- a batch run after an earlier one ----------------- *)
\* the home directory holds files that parse
InitRerun ==
    /\ \E n \in 1..MaxNames :
          fs \in [{HomeDir} \X (1..n) -> {GoodBytes, TwoChunkBytes}]
    /\ index = EmptyIndex
    /\ disk_index = NoFile
    /\ store = <<>>
    /\ checkpoint = NoCheckpoint
    /\ batch = NoBatch
    /\ ret = NoReturn
    /\ clock = 0
    /\ ghost = NoGhost
    /\ report = NoReport

\* batch_ingest on the home directory under either tier
BatchStartRerun ==
    \E tier \in TierInputs, force \in BOOLEAN : BatchStartWith(HomeDir, tier, force)

NextRerun == WriteFile \/ BatchStartRerun \/ BatchStepMany \/ BatchFinishMany

SpecRerun == InitRerun /\ [][NextRerun]_vars

\* C29: when batch_ingest(directory, tier=T) without force returns, every
\* enumerated file that is not in the error list has an index record whose
\* sha256 is the hash of the file's current bytes and whose tier is T.
C29_ResultCurrent ==
    [][(IsReturn /\ ~batch.force) =>
          \A k \in 1..Len(batch.all_files) :
              LET path == batch.all_files[k]
                  fname == Name(path)
              IN  (\A e \in 1..Len(batch.error_files) : batch.error_files[e].file # fname)
                  => /\ fname \in DOMAIN index'.documents
                     /\ index'.documents[fname].sha256 = file_hash(fs[path])
                     /\ index'.documents[fname].tier = batch.tier]_vars

(* ------------------ interrupted and resumed, uninterrupted ------------- *)
\* the documents of an index without their timestamps
DocFacts(idx) ==
    [f \in DOMAIN idx.documents |->
        [sha256 |-> idx.documents[f].sha256,
         tier |-> idx.documents[f].tier,
         chunks |-> idx.documents[f].chunks]]

\* the chunks of a store without their timestamps
ChunkFacts(st) == [id \in DOMAIN st |-> [st[id] EXCEPT !.ingested_at = 0]]

\* one iteration of the loop of batch_ingest when nothing fails, at time
\* now, on the locals and the state s = [batch, index, disk, store, checkpoint]
LoopStep(s, filesys, now) ==
    LET b == s.batch
        path == b.all_files[b.i]
        fname == Name(path)
    IN  IF PassedOver(b, fname)
        THEN [s EXCEPT !.batch = [b EXCEPT !.stats.skipped = @ + 1, !.i = @ + 1]]
        ELSE LET o == ingest_file(s.index, s.disk, s.store, filesys, path, b.tier,
                                  b.force, now, "none", 0)
                 b1 == [Classify(b, fname, o.status, o.reason) EXCEPT !.i = @ + 1]
                 due == Processed(b1.stats) % BATCH_SAVE_INTERVAL = 0
                 saved == SaveIndex(o.index, o.disk, now, "ok")
             IN  IF due
                 THEN [batch |-> b1, index |-> saved.index, disk |-> saved.disk,
                       store |-> o.store, checkpoint |-> LoopCheckpoint(b1, now)]
                 ELSE [batch |-> b1, index |-> o.index, disk |-> o.disk,
                       store |-> o.store, checkpoint |-> s.checkpoint]

\* the loop of batch_ingest from the state s to its end when nothing fails
\* and nothing interrupts it; the file at position k is handled at time
\* start + k, and every iteration moves on to the next position
RECURSIVE IngestFrom(_, _, _)
IngestFrom(s, filesys, start) ==
    IF s.batch.i > Len(s.batch.all_files) THEN s
    ELSE LET next == LoopStep(s, filesys, start + s.batch.i)
         IN  IF next.batch.i = s.batch.i + 1
             THEN IngestFrom(next, filesys, start)
             ELSE s

\* what batch_ingest(directory, tier) without force leaves and returns when
\* it starts at time 0 from nothing (no index, no checkpoint, an empty
\* store) and nothing fails or interrupts it
Uninterrupted(all_files, filesys, tier) ==
    LET nothing == [index |-> EmptyIndex, disk |-> NoFile, store |-> <<>>,
                    checkpoint |-> NoCheckpoint]
    IN  IF Len(all_files) = 0
        THEN [index |-> nothing.index, disk |-> nothing.disk, store |-> nothing.store,
              checkpoint |-> nothing.checkpoint,
              ret |-> [op |-> "batch_ingest", status |-> "empty", total |-> 0]]
        ELSE LET b0 == StartBatch(all_files, HomeDir, tier, FALSE, NoCheckpoint, 0)
                 s == IngestFrom([batch |-> b0, index |-> nothing.index,
                                  disk |-> nothing.disk, store |-> nothing.store,
                                  checkpoint |-> nothing.checkpoint],
                                 filesys, 0)
                 now == Len(all_files) + 1
                 saved == SaveIndex(s.index, s.disk, now, "ok")
             IN  [index |-> saved.index, disk |-> saved.disk, store |-> s.store,
                  checkpoint |-> FinalCheckpoint(s.batch, now),
                  ret |-> [op |-> "batch_ingest", status |-> "returned",
                           stats |-> FinalStats(s.batch, now)]]

\* C30: a batch run over a directory of distinct-named files that started
\* from nothing, was killed after any number of files and was restarted
\* without force, returns with the index documents (hash, tier, chunk count
\* of every filename) and the chunk set of the vector store that a run from
\* nothing which is not interrupted returns with, timestamps left aside.
C30_ResumedEqualsUninterrupted ==
    [][(IsReturn /\ ~batch.force /\ (ghost.resumed \/ ghost.fresh)) =>
          LET ref == Uninterrupted(batch.all_files, fs, batch.tier)
          IN  /\ DocFacts(index') = DocFacts(ref.index)
              /\ ChunkFacts(store') = ChunkFacts(ref.store)]_vars

\* C30 witness: a restarted run returned after the kill came past the first
\* checkpoint in a directory with one file that does not parse; it ingested
\* the files the killed run had left, and every file but the failing one has
\* its record and its chunk.
C30_Witness ==
    /\ Returned
    /\ ghost.resumed
    /\ ghost.killedAt > BATCH_SAVE_INTERVAL
    /\ ret.stats.errors = 1
    /\ ret.stats.ingested >= 1
    /\ Cardinality(DOMAIN index.documents) = ret.stats.total - 1
    /\ Cardinality(DOMAIN store) = ret.stats.total - 1
====
